---- MODULE Spec2Model ----
(***************************************************************************)
(* A model of robin_dict.py: RobinHoodDict, an open-addressed hash table   *)
(* with Robin Hood stealing, tombstones, displacement statistics and       *)
(* rehashing, together with the BucketList it stores its slots in.         *)
(*                                                                         *)
(* Python indexes are 0-based; the slot with Python index i is element     *)
(* i + 1 of the sequence `buckets`.  Every handler is one operator from a  *)
(* dictionary record to the dictionary record the handler leaves behind,   *)
(* with the outcome of the call in the fields err and ret.                 *)
(***************************************************************************)
EXTENDS Integers, Sequences, FiniteSets, TLC

\* ---------------------------------------------------------------- bounds
\* keys offered to the table: non-negative ints, which hash to themselves.
\* With 10 slots 6 and 16 share home 6, 7 steals the slot of a displaced 16,
\* and 9 is the last slot; four distinct keys fit and reach the rehash.
Keys == {6, 7, 9, 16}

Values == {1, 2}

\* number of set calls in one behaviour
MaxSets == 4

\* the interpreter's limit on nested __setitem__ frames, scaled down; no
\* cascade or replay of the keys above comes near it
RecursionLimit == 20

\* ------------------------------------------------------ program constants
\* loads are fractions <<numerator, denominator>>
MAX_LOAD == <<2, 3>>

MIN_LOAD == <<1, 2>>

AVG_LOAD == <<MAX_LOAD[1] * MIN_LOAD[2] + MIN_LOAD[1] * MAX_LOAD[2],
              2 * MAX_LOAD[2] * MIN_LOAD[2]>>

MINIMUM_CAPACITY == 10

NoErr == "none"

\* ------------------------------------------------------------------ slots
\* Bucket = Optional[RobinValue]; full is FALSE for None
None == [full |-> FALSE, hash |-> 0, key |-> 0, value |-> 0]

RobinValue(h, k, v) == [full |-> TRUE, hash |-> h, key |-> k, value |-> v]

\* repeat(None, n)
repeat_None(n) == [i \in 1..n |-> None]

\* the builtin hash of a small non-negative int
hash_of(key) == key

Max2(a, b) == IF a >= b THEN a ELSE b

\* Python int(): truncation toward zero of num / den, den > 0
int_trunc(num, den) ==
  IF num >= 0 THEN num \div den ELSE -((-num) \div den)

\* Python //: floor of a / b, b # 0
floor_div(a, b) == IF b > 0 THEN a \div b ELSE (-a) \div (-b)

\* ------------------------------------------------------------- BucketList
BucketList_setitem(d, idx, value) ==
  LET old_value == d.buckets[idx + 1]
      delta == (IF old_value.full THEN -1 ELSE 1)
               + (IF value.full THEN 1 ELSE -1)
  IN  [d EXCEPT !.buckets[idx + 1] = value,
                !.n_full = @ + delta,
                !.tombstones = @ \ {idx}]

BucketList_delitem(d, idx) ==
  LET old_value == d.buckets[idx + 1]
  IN  [d EXCEPT !.n_full = IF old_value.full THEN @ - 1 ELSE @,
                !.buckets[idx + 1] = None,
                !.tombstones = @ \cup {idx}]

\* ---------------------------------------------------------- RobinHoodDict
capacity(d) == Len(d.buckets)

\* load_factor >= frac and load_factor <= frac, on exact fractions
\* the count compared with the capacity instead of the load with frac
load_factor_ge_full(d, frac) == d.n_full >= capacity(d)

load_factor_ge(d, frac) == d.n_full * frac[2] >= frac[1] * capacity(d)

load_factor_le(d, frac) == d.n_full * frac[2] <= frac[1] * capacity(d)

\* the hash taken modulo the capacity of construction
compute_hash_stale(d, key) == hash_of(key) % MINIMUM_CAPACITY

compute_hash(d, key) == hash_of(key) % capacity(d)

compare_keys(key1, key2) == key1 = key2

\* _find_bucket returns None (here NoBucket) when the scan runs off the end
NoBucket == -1

\* stealing also from an occupant with the same home hash
find_bucket_steal_equal(d, h) ==
  LET hits == {i \in h..(capacity(d) - 1) :
                 \/ ~ d.buckets[i + 1].full
                 \/ d.buckets[i + 1].hash <= h}
  IN  IF hits = {} THEN NoBucket
      ELSE CHOOSE i \in hits : \A j \in hits : i <= j

find_bucket(d, h) ==
  LET hits == {i \in h..(capacity(d) - 1) :
                 \/ ~ d.buckets[i + 1].full
                 \/ d.buckets[i + 1].hash < h}
  IN  IF hits = {} THEN NoBucket
      ELSE CHOOSE i \in hits : \A j \in hits : i <= j

\* min in place of max
update_statistics_add_min(d, idx, orig_idx) ==
  LET distance == idx - orig_idx
  IN  [d EXCEPT !.mean_dist =
                   int_trunc(d.mean_dist * d.n_full + distance, 2 * d.n_full),
                !.max_dist = IF d.max_dist <= distance THEN d.max_dist
                             ELSE distance]

update_statistics_add(d, idx, orig_idx) ==
  LET distance == idx - orig_idx
  IN  [d EXCEPT !.mean_dist =
                   int_trunc(d.mean_dist * d.n_full + distance, 2 * d.n_full),
                !.max_dist = Max2(d.max_dist, distance)]

get_max_dist(d) ==
  LET dists == {i - d.buckets[i + 1].hash :
                  i \in {j \in 0..(capacity(d) - 1) : d.buckets[j + 1].full}}
  IN  IF dists = {} THEN 0
      ELSE CHOOSE m \in dists \cup {0} : \A x \in dists \cup {0} : m >= x

update_statistics_remove(d, idx, orig_idx) ==
  LET distance == idx - orig_idx
  IN  IF d.n_full - 1 = 0 THEN [d EXCEPT !.err = "ZeroDivisionError"]
      ELSE LET d1 == [d EXCEPT !.mean_dist =
                        floor_div(d.mean_dist * d.n_full - distance,
                                  d.n_full - 1)]
           IN  IF d1.max_dist = distance
               THEN [d1 EXCEPT !.max_dist = get_max_dist(d1)]
               ELSE d1

RECURSIVE setitem(_, _, _)
RECURSIVE rehash_replay(_, _, _)

\* _rehash: a new BucketList of int(n_full / MIN_LOAD) slots, then every
\* occupied old slot set again in storage order; an error stops the replay
rehash(d) ==
  LET old_buckets == d.buckets
      n_buckets == int_trunc(d.n_full * MIN_LOAD[2], MIN_LOAD[1])
  IN  rehash_replay([d EXCEPT !.buckets = repeat_None(n_buckets),
                              !.n_full = 0,
                              !.tombstones = {}],
                    old_buckets, 1)

rehash_replay(d, old_buckets, i) ==
  IF i > Len(old_buckets) THEN d
  ELSE IF ~ old_buckets[i].full THEN rehash_replay(d, old_buckets, i + 1)
  ELSE LET d1 == setitem(d, old_buckets[i].key, old_buckets[i].value)
       IN  IF d1.err # NoErr THEN d1
           ELSE rehash_replay(d1, old_buckets, i + 1)

\* a new __setitem__ frame: depth counts the frames that are open, deepest
\* the most that were open at once during the call
enter_frame(d) ==
  [d EXCEPT !.depth = @ + 1, !.deepest = Max2(@, d.depth + 1)]

\* __setitem__: unpacking the None of _find_bucket is a TypeError; nesting
\* beyond the interpreter's limit is a RecursionError
setitem(d, key, val) ==
  IF d.depth >= RecursionLimit THEN [d EXCEPT !.err = "RecursionError"]
  ELSE
  LET e == enter_frame(d)
      h == compute_hash(e, key)
      idx == find_bucket(e, h)
      r == IF idx = NoBucket THEN [e EXCEPT !.err = "TypeError"]
           ELSE LET bucket == e.buckets[idx + 1]
                    d1 == BucketList_setitem(e, idx, RobinValue(h, key, val))
                    d2 == update_statistics_add(d1, idx, h)
                IN  IF bucket.full THEN setitem(d2, bucket.key, bucket.value)
                    ELSE IF load_factor_ge(d2, MAX_LOAD) THEN rehash(d2)
                    ELSE d2
  IN  [r EXCEPT !.depth = d.depth]

\* ---------------------------------------------------------- the read path
\* range(a, b) and range(a, b, -1)
range_up(a, b) == [i \in 1..Max2(0, b - a) |-> a + i - 1]

range_down(a, b) == [i \in 1..Max2(0, a - b) |-> a - i + 1]

\* zip_longest(r1, r2, fillvalue=0): one 2-tuple per position
zip_longest(r1, r2) ==
  [i \in 1..Max2(Len(r1), Len(r2)) |->
     [tuple |-> TRUE,
      a |-> IF i <= Len(r1) THEN r1[i] ELSE 0,
      b |-> IF i <= Len(r2) THEN r2[i] ELSE 0]]

\* the same pairs chained into single indexes: a, b, a, b, ...
chained_indexes(r1, r2) ==
  LET z == zip_longest(r1, r2)
  IN  [j \in 1..(2 * Len(z)) |->
         [tuple |-> FALSE,
          a |-> IF j % 2 = 1 THEN z[(j + 1) \div 2].a ELSE z[j \div 2].b,
          b |-> 0]]

\* the iterable `indexes` of _get_smart_search_indexes: its elements are the
\* tuples of zip_longest
search_indexes(r1, r2) == zip_longest(r1, r2)

get_smart_search_indexes(d, h) ==
  search_indexes(range_up(d.mean_dist + h, d.max_dist + h + 1),
                 range_down(d.mean_dist + h - 1, h - 1))

RECURSIVE getitem_loop(_, _, _, _, _)
\* the for loop of __getitem__ over the generator; `idx >= h` on a tuple is
\* a TypeError, raised inside the generator when the loop asks for an item
getitem_loop(d, key, h, indexes, j) ==
  IF j > Len(indexes) THEN [d EXCEPT !.err = "KeyError"]
  ELSE LET idx == indexes[j]
       IN  IF idx.tuple THEN [d EXCEPT !.err = "TypeError"]
           ELSE IF ~ (idx.a >= h /\ idx.a \notin d.tombstones)
           THEN getitem_loop(d, key, h, indexes, j + 1)
           ELSE IF idx.a >= capacity(d) THEN [d EXCEPT !.err = "IndexError"]
           ELSE LET bucket == d.buckets[idx.a + 1]
                IN  IF ~ bucket.full THEN [d EXCEPT !.err = "KeyError"]
                    ELSE IF bucket.hash = h /\ compare_keys(bucket.key, key)
                    THEN [d EXCEPT !.ret = bucket.value]
                    ELSE getitem_loop(d, key, h, indexes, j + 1)

getitem(d, key) ==
  LET h == compute_hash(d, key)
  IN  getitem_loop(d, key, h, get_smart_search_indexes(d, h), 1)

\* `self._rehash` in __delitem__ names the method without calling it
rehash_reference(d) == d

RECURSIVE delitem_loop(_, _, _, _, _)
delitem_loop(d, key, h, indexes, j) ==
  IF j > Len(indexes) THEN [d EXCEPT !.err = "KeyError"]
  ELSE LET idx == indexes[j]
       IN  IF idx.tuple THEN [d EXCEPT !.err = "TypeError"]
           ELSE IF ~ (idx.a >= h /\ idx.a \notin d.tombstones)
           THEN delitem_loop(d, key, h, indexes, j + 1)
           ELSE IF idx.a >= capacity(d) THEN [d EXCEPT !.err = "IndexError"]
           ELSE LET bucket == d.buckets[idx.a + 1]
                IN  IF ~ bucket.full THEN [d EXCEPT !.err = "KeyError"]
                    ELSE IF bucket.hash = h /\ compare_keys(bucket.key, key)
                    THEN LET d1 == BucketList_delitem(d, idx.a)
                             d2 == update_statistics_remove(d1, idx.a, h)
                         IN  IF d2.err # NoErr THEN d2
                             ELSE IF load_factor_le(d2, <<MIN_LOAD[1],
                                                        2 * MIN_LOAD[2]>>)
                             THEN rehash_reference(d2)
                             ELSE d2
                    ELSE delitem_loop(d, key, h, indexes, j + 1)

delitem(d, key) ==
  LET h == compute_hash(d, key)
  IN  delitem_loop(d, key, h, get_smart_search_indexes(d, h), 1)

\* __len__
len(d) == d.n_full

\* __iter__: the keys of the occupied slots in storage order
iter_keys(d) ==
  LET F[i \in 0..capacity(d)] ==
        IF i = 0 THEN << >>
        ELSE IF d.buckets[i].full THEN Append(F[i - 1], d.buckets[i].key)
        ELSE F[i - 1]
  IN  F[capacity(d)]

\* ------------------------------------------------------------------ state
VARIABLES buckets, n_full, tombstones, mean_dist, max_dist, last, ref, nsets

vars == <<buckets, n_full, tombstones, mean_dist, max_dist, last, ref, nsets>>

\* the dictionary as the record the handlers work on
self == [buckets |-> buckets, n_full |-> n_full, tombstones |-> tombstones,
         mean_dist |-> mean_dist, max_dist |-> max_dist,
         err |-> NoErr, ret |-> 0, depth |-> 0, deepest |-> 0]

table == <<buckets, n_full, tombstones, mean_dist, max_dist>>

\* the value no key maps to in the reference map
NoVal == 0

occupied(b) == {i \in 0..(Len(b) - 1) : b[i + 1].full}

slots_of(b, key) == {i \in occupied(b) : b[i + 1].key = key}

\* the (key, value) pairs held by the occupied slots
pairs(b) == {<<b[i + 1].key, b[i + 1].value>> : i \in occupied(b)}

\* the record of a call: what was called, how it ended, and what len(), the
\* capacity and the slots of the key were when it was called
call(op, key, val, d) ==
  [op |-> op, key |-> key, val |-> val, err |-> d.err, ret |-> d.ret,
   len_before |-> n_full, cap_before |-> Len(buckets),
   occ_before |-> Cardinality(occupied(buckets)),
   home |-> compute_hash(self, key),
   present_before |-> slots_of(buckets, key) # {},
   pairs_before |-> pairs(buckets),
   deepest |-> d.deepest,
   freed |-> d.tombstones \ tombstones,
   undoes |-> /\ op = "delete" /\ d.err = NoErr
              /\ last.op = "set" /\ last.err = NoErr
              /\ last.key = key /\ ~ last.present_before,
   only_fresh_sets |-> /\ op = "set"
                       /\ d.err = NoErr
                       /\ ref[key] = NoVal
                       /\ last.only_fresh_sets]

store(d) ==
  /\ buckets' = d.buckets
  /\ n_full' = d.n_full
  /\ tombstones' = d.tombstones
  /\ mean_dist' = d.mean_dist
  /\ max_dist' = d.max_dist

\* n_buckets of __init__ for len(kwargs) = n
initial_n_buckets(n) ==
  Max2(int_trunc(n * AVG_LOAD[2], AVG_LOAD[1]), MINIMUM_CAPACITY)

\* RobinHoodDict(): no base and no keywords, so nothing is set
Init ==
  /\ buckets = repeat_None(initial_n_buckets(0))
  /\ n_full = 0
  /\ tombstones = {}
  /\ mean_dist = 1
  /\ max_dist = 1
  /\ last = [op |-> "new", key |-> 0, val |-> 0, err |-> NoErr, ret |-> 0,
             len_before |-> 0, cap_before |-> 0, occ_before |-> 0,
             home |-> 0, present_before |-> FALSE, pairs_before |-> {},
             deepest |-> 0, freed |-> {},
             undoes |-> FALSE,
             only_fresh_sets |-> TRUE]
  /\ ref = [k \in Keys |-> NoVal]
  /\ nsets = 0

\* d[key] = val
Set(key, val) ==
  /\ nsets < MaxSets
  /\ LET d == setitem(self, key, val)
     IN  /\ store(d)
         /\ last' = call("set", key, val, d)
  /\ ref' = [ref EXCEPT ![key] = val]
  /\ nsets' = nsets + 1

\* d[key]
Get(key) ==
  /\ LET d == getitem(self, key)
     IN  /\ store(d)
         /\ last' = call("get", key, 0, d)
  /\ UNCHANGED <<ref, nsets>>

\* del d[key]
Delete(key) ==
  /\ LET d == delitem(self, key)
     IN  /\ store(d)
         /\ last' = call("delete", key, 0, d)
         /\ ref' = IF d.err = NoErr THEN [ref EXCEPT ![key] = NoVal] ELSE ref
  /\ UNCHANGED nsets

Next ==
  \/ \E key \in Keys, val \in Values : Set(key, val)
  \/ \E key \in Keys : Get(key)
  \/ \E key \in Keys : Delete(key)

Spec == Init /\ [][Next]_vars

\* ----------------------------------------------------------------- claims
keys_set == {k \in Keys : ref[k] # NoVal}

is_set_step == nsets' = nsets + 1

\* C1: a set(k, v) that completed, followed immediately by get(k), makes the
\* get return v.
C1_RoundTrip ==
  [][(/\ last.op = "set" /\ last.err = NoErr
      /\ last'.op = "get" /\ last'.key = last.key)
     => (last'.err = NoErr /\ last'.ret = last.val)]_vars

\* C2: the table is a reference map: a get of a key whose last operation was
\* set(k, v) returns v, whatever happened to other keys in between.
C2_ReferenceMap ==
  (last.op = "get" /\ ref[last.key] # NoVal)
    => (last.err = NoErr /\ last.ret = ref[last.key])

\* C3: set never fails: every set call completes without an error.
C3_SetNeverFails == last.op = "set" => last.err = NoErr

\* C4: after sets of pairwise distinct keys on the empty table len() is the
\* number of keys set.
C4_LenCountsKeys ==
  last.only_fresh_sets => len(self) = Cardinality(keys_set)

\* C5: set overwrites: no key is held by two occupied slots, and a set of a
\* key that is present leaves len() as it was.
C5_SetOverwrites ==
  /\ \A k \in Keys : Cardinality(slots_of(buckets, k)) <= 1
  /\ (last.op = "set" /\ last.err = NoErr /\ last.present_before)
       => len(self) = last.len_before

\* C6: get of a key that was never set, or was deleted after it was last
\* set, fails with KeyError and with no other error.
C6_AbsentKeyError ==
  (last.op = "get" /\ ref[last.key] = NoVal) => last.err = "KeyError"

\* C7: delete of a present key succeeds, and after it get and a second
\* delete of that key fail with KeyError.
C7_DeleteThenLookup ==
  /\ []((last.op = "delete" /\ last.present_before) => last.err = NoErr)
  /\ [][(/\ last.op = "delete" /\ last.err = NoErr
         /\ last'.op \in {"get", "delete"} /\ last'.key = last.key
         /\ ~ is_set_step)
        => last'.err = "KeyError"]_vars

\* C8: a get or a delete that ends in an error leaves the slot array, the
\* live-entry count, the tombstone set, mean_dist and max_dist as they were.
C8_ErrorLeavesTable ==
  [][(last'.op \in {"get", "delete"} /\ last'.err # NoErr)
     => table' = table]_vars

\* C8 witness: a delete of a key that occupies a slot has ended in an error
C8_Witness ==
  last.op = "delete" /\ last.err # NoErr /\ last.present_before

\* C9: while pairwise distinct keys are set, the capacity changes during a
\* set exactly when the occupied slots after its write are 2/3 of the
\* capacity or more; so 10 slots stay 10 until the 7th key.
C9_GrowthAtThreshold ==
  /\ [](last.only_fresh_sets
          => (capacity(self) = MINIMUM_CAPACITY <=> nsets < 7))
  /\ [][(is_set_step /\ last'.only_fresh_sets)
        => (Len(buckets') # Len(buckets)
              <=> (Cardinality(occupied(buckets)) + 1) * MAX_LOAD[2]
                    >= MAX_LOAD[1] * Len(buckets))]_vars

\* C10: set of an absent key followed by delete of it puts len() back, and
\* the next set of a key with that home index fills the freed slot and
\* keeps the capacity.
C10_InsertDeleteRestoresLen ==
  /\ [][(/\ last.op = "set" /\ last.err = NoErr /\ ~ last.present_before
         /\ last'.op = "delete" /\ last'.key = last.key)
        => (last'.err = NoErr /\ n_full' = last.len_before)]_vars
  /\ [][(/\ last.op = "delete" /\ last.undoes
         /\ is_set_step /\ last'.home = last.home)
        => (/\ Len(buckets') = Len(buckets)
            /\ \A i \in last.freed : buckets'[i + 1].full)]_vars

C12_RobinHoodOrdering ==
  (tombstones = {} /\ \A k \in Keys : Cardinality(slots_of(buckets, k)) <= 1)
    => \A i \in occupied(buckets) :
         (i + 1) \in occupied(buckets)
           => buckets[i + 1].hash <= buckets[i + 2].hash

\* C13: between operations n_full, the value of len(), is the number of
\* occupied slots, which is the number of keys iteration produces.
C13_CountIsOccupied ==
  /\ len(self) = Cardinality(occupied(buckets))
  /\ len(self) = Len(iter_keys(self))

displacement(b, i) == i - b[i + 1].hash

\* C14: between operations max_dist is at least the displacement of every
\* occupied slot.
C14_MaxDistBounds ==
  \A i \in occupied(buckets) : max_dist >= displacement(buckets, i)

\* C14 witness: an entry sits further from its home than the max_dist of
\* construction, and max_dist has followed it
C14_Witness ==
  \E i \in occupied(buckets) :
    displacement(buckets, i) >= 2 /\ max_dist = displacement(buckets, i)

\* C15: a set of a key that is not present, whether it returns or fails,
\* leaves exactly the pairs that were there plus the new one.
C15_SetKeepsEntries ==
  (last.op = "set" /\ ~ last.present_before)
    => pairs(buckets) = last.pairs_before \cup {<<last.key, last.val>>}

\* C17: a set of a new key (after sets of distinct keys only) that
\* completes and changes the capacity leaves a slot array of
\* (occupied entries) / MIN_LOAD slots, twice the entries replayed, and every
\* pair that was held, and the new one, is held by the new array.
C17_GrowthTarget ==
  [][(/\ is_set_step /\ last'.err = NoErr /\ last'.only_fresh_sets
      /\ Len(buckets') # Len(buckets))
     => (/\ Len(buckets') * MIN_LOAD[1]
              = Cardinality(occupied(buckets')) * MIN_LOAD[2]
         /\ pairs(buckets) \cup {<<last'.key, last'.val>>}
              \subseteq pairs(buckets'))]_vars

\* the candidates the generator hands out for h: the elements of `indexes`
\* that pass its filter
candidates(d, h) ==
  LET indexes == get_smart_search_indexes(d, h)
  IN  {indexes[j].a : j \in {n \in 1..Len(indexes) :
                               /\ ~ indexes[n].tuple
                               /\ indexes[n].a >= h
                               /\ indexes[n].a \notin d.tombstones}}

\* C18: for every home index h the elements of the search sequence are
\* single slot indexes, the candidates cover every index of
\* h .. h + max_dist that is not a tombstone, and none is below h.
C18_WindowCoverage ==
  \A h \in 0..(capacity(self) - 1) :
    LET indexes == get_smart_search_indexes(self, h)
    IN  /\ \A j \in 1..Len(indexes) : ~ indexes[j].tuple
        /\ \A i \in h..(h + max_dist) :
             i \notin tombstones => i \in candidates(self, h)
        /\ \A i \in candidates(self, h) : i >= h

\* C19: between operations every occupied slot i stores the hash of its key
\* modulo the current capacity, and that home is at or before i.
C19_HomeHashCurrent ==
  \A i \in occupied(buckets) :
    /\ buckets[i + 1].hash = hash_of(buckets[i + 1].key) % Len(buckets)
    /\ buckets[i + 1].hash <= i
    /\ i < Len(buckets)

\* C19 witness: the last set rehashed, and a key whose home differs between
\* the old and the new capacity is stored with its new home
C19_Witness ==
  /\ last.op = "set" /\ last.err = NoErr
  /\ last.cap_before # Len(buckets)
  /\ \E i \in occupied(buckets) :
       /\ hash_of(buckets[i + 1].key) % last.cap_before
            # hash_of(buckets[i + 1].key) % Len(buckets)
       /\ buckets[i + 1].hash = hash_of(buckets[i + 1].key) % Len(buckets)

\* C20: after every set that completes the load factor len() / capacity is
\* strictly below MAX_LOAD.
C20_LoadBounded ==
  (last.op = "set" /\ last.err = NoErr)
    => len(self) * MAX_LOAD[2] < MAX_LOAD[1] * capacity(self)

\* C20 witness: a set that crossed MAX_LOAD has completed after rehashing
C20_Witness ==
  /\ last.op = "set" /\ last.err = NoErr
  /\ (last.len_before + 2) * MAX_LOAD[2] >= MAX_LOAD[1] * last.cap_before
  /\ last.cap_before # capacity(self)

\* C16: every set ends, without exhausting the interpreter's recursion, and
\* its recursive __setitem__ calls, replay of a rehash included, are nested
\* no deeper than the capacity.
C16_SetTerminates ==
  last.op = "set"
    => (/\ last.err # "RecursionError"
        /\ last.deepest >= 1
        /\ last.deepest - 1 <= capacity(self))

\* C16 witness: a set has evicted an occupant and reinserted it
C16_Witness ==
  last.op = "set" /\ last.err = NoErr /\ last.deepest >= 2
  /\ last.cap_before = capacity(self)

====
